---- MODULE Spec2Model ----
(***************************************************************************)
(* go-env-cli: the variable repository (internal/app/models/repository.go) *)
(* over the schema of db/migrations/01_initial_schema.sql.                 *)
(*                                                                         *)
(* The three tables are sets of rows.  Every SQL statement the repository  *)
(* sends is one atomic step on the tables (the database executes a single  *)
(* statement atomically); a repository call that sends two statements is   *)
(* two steps, with the Go locals it keeps between them held in call[self]. *)
(* Spec runs the calls one after the other (one caller); SpecConc and      *)
(* SpecCreate let two callers interleave statement by statement.           *)
(*                                                                         *)
(* Abstractions: deleted_at is modelled by the boolean it is tested for    *)
(* (deleted_at IS NULL); description and the timestamps are not modelled;  *)
(* uuid.New() is a fresh identifier; database statements do not fail for   *)
(* reasons outside the schema (no connection errors).                      *)
(*                                                                         *)
(* The migration runner (internal/pkg/db/migrations.go) is modelled under  *)
(* SpecMigrate: the transaction of one migration file is one step, which   *)
(* commits or fails at one of the code's error returns.  ParseKeyValuePair *)
(* (internal/pkg/utils/utils.go) is modelled under SpecParse over strings  *)
(* as sequences of characters.                                             *)
(*                                                                         *)
(* SpecMigrateConc runs two MigrateUp at a time with the transaction of a  *)
(* migration statement by statement.  SpecFault is Spec for one triple     *)
(* with an existence lookup that may fail.  SpecCli is one invocation of   *)
(* the command line tool (cmd/root.go): the handler calls it makes return  *)
(* nil or an error, the package of the handlers is not modelled.           *)
(***************************************************************************)
EXTENDS Integers, Sequences, FiniteSets, TLC

\* ------------------------------------------------------------------ bounds
\* SetEnvVariable is not called for a triple without rows once MaxVars rows
\* are in env_variables or about to be inserted.
MaxVars == 2
\* The identifiers uuid.New() hands out for projects, in this order: at most
\* that many rows are ever inserted into projects.
ProjectIDs == {1, 2}

\* Project names the callers use.
Names == {"app", "web"}
\* Environment names CreateEnvironment is called with: one seeded, one new.
NewEnvNames == {"development", "staging"}
\* Variable keys and values the callers use.
Keys == {"K1", "K2"}
Values == {"v1", "v2"}
\* The callers: Spec uses the first only.
Procs == {1, 2}

\* ------------------------------------------------------------------ schema
\* The environments seeded by the migration, in insertion order.
SeedEnvironments == <<"development", "sit", "uat">>

\* Environment ids the variable calls are made with (seeded environments).
EnvArgs == {1, 2}

\* uuid.Nil, for a project or environment and for a variable.
NoID == 0
NoVarID == <<>>

VARIABLES projects, environments, env_variables, pc, call

\* The migration runner: the files of the migration folder, the rows of
\* schema_migrations in insertion order, the migration files whose SQL has
\* been committed (in commit order), and each runner's MigrateUp locals.
VARIABLES folder, schema_migrations, committed, run

\* The argument parser: the input string and what ParseKeyValuePair returned.
VARIABLES input, result

\* One invocation of the command line tool: its verb, flags and what it
\* reads from the terminal and the file system; and how far it has run, the
\* handler calls and shells it has made and its exit status.
VARIABLES argv, cli

repoVars == <<projects, environments, env_variables, pc, call>>
migVars == <<folder, schema_migrations, committed, run>>
parseVars == <<input, result>>
cliVars == <<argv, cli>>
vars == <<projects, environments, env_variables, pc, call,
          folder, schema_migrations, committed, run, input, result, argv, cli>>

\* uuid.New() / gen_random_uuid(): an identifier no row of the table has.
NewID(table) == Cardinality(table) + 1

\* uuid.New() in SetEnvVariable: an identifier no row of env_variables has.
\* Identifiers are opaque, so the n-th row inserted for a triple is named by
\* the triple and n.
NewVarID(projectID, environmentID, key) ==
    <<projectID, environmentID, key,
      1 + Cardinality({r \in env_variables : /\ r.project_id = projectID
                                             /\ r.environment_id = environmentID
                                             /\ r.key = key})>>

\* ------------------------------------------------------------------ queries
\* deleted_at IS NULL
Active(table) == {r \in table : ~r.deleted}

\* Mutant of CountActiveProjects: the check counts deleted projects too
\* (the name unique over the whole table, as before the constraint was dropped).
CountActiveProjects_AnyRow(name) == Cardinality({r \in projects : r.name = name})

\* SELECT COUNT(*) FROM projects WHERE name = $1 AND deleted_at IS NULL
CountActiveProjects(name) == Cardinality({r \in Active(projects) : r.name = name})

\* SELECT COUNT(*) FROM environments WHERE name = $1
CountEnvironments(name) == Cardinality({r \in environments : r.name = name})

\* Mutant of GetProjectByName: the query without AND deleted_at IS NULL.
GetProjectByName_AnyRow(name) == {r \in projects : r.name = name}

\* GetProjectByName: the rows db.Get may scan (it scans the first row of the
\* result and ignores the rest; the query has no ORDER BY); none is an error.
GetProjectByName(name) == {r \in projects : r.name = name /\ ~r.deleted}

\* GetAllProjects: the active projects (the ORDER BY name is not modelled).
GetAllProjects == {r \in projects : ~r.deleted}

\* Mutant of SelectVariable: the check query with the null test inverted
\* (AND deleted_at IS NOT NULL), so that it sees only deleted rows.
SelectVariable_DeletedOnly(projectID, environmentID, key) ==
    {r \in env_variables : /\ r.project_id = projectID
                           /\ r.environment_id = environmentID
                           /\ r.key = key
                           /\ r.deleted}

\* Mutant of SelectVariable: the check query restricted to active rows (AND
\* deleted_at IS NULL), as the comment above it in the code describes.
SelectVariable_ActiveOnly(projectID, environmentID, key) ==
    {r \in env_variables : /\ r.project_id = projectID
                           /\ r.environment_id = environmentID
                           /\ r.key = key
                           /\ ~r.deleted}

\* The check query of SetEnvVariable: every row of the triple, deleted or not.
SelectVariable(projectID, environmentID, key) ==
    {r \in env_variables : /\ r.project_id = projectID
                           /\ r.environment_id = environmentID
                           /\ r.key = key}

\* Mutant of GetEnvVariable: the query without AND deleted_at IS NULL.
GetEnvVariable_AnyRow(projectID, environmentID, key) ==
    {r \in env_variables : /\ r.project_id = projectID
                           /\ r.environment_id = environmentID
                           /\ r.key = key}

\* GetEnvVariable: the rows db.Get may scan; none is an error.
GetEnvVariable(projectID, environmentID, key) ==
    {r \in env_variables : /\ r.project_id = projectID
                           /\ r.environment_id = environmentID
                           /\ r.key = key
                           /\ ~r.deleted}

\* GetEnvVariables: the active rows of the pair (the ORDER BY key is not modelled).
GetEnvVariables(projectID, environmentID) ==
    {r \in env_variables : /\ r.project_id = projectID
                           /\ r.environment_id = environmentID
                           /\ ~r.deleted}

\* Mutant of GetEnvironmentsForProject: SELECT e.* without DISTINCT, one
\* result row per joined variable row.
GetEnvironmentsForProject_NoDistinct(projectID) ==
    LET joined(e) == {ev \in env_variables : /\ ev.environment_id = e.id
                                               /\ ev.project_id = projectID
                                               /\ ~ev.deleted}
    IN  [e \in {e \in environments : joined(e) # {}} |-> Cardinality(joined(e))]

\* GetEnvironmentsForProject: the result as the number of times each
\* environment row is in it (the ORDER BY name is not modelled).
GetEnvironmentsForProject(projectID) ==
    LET joined(e) == {ev \in env_variables : /\ ev.environment_id = e.id
                                               /\ ev.project_id = projectID
                                               /\ ~ev.deleted}
    IN  [e \in {e \in environments : joined(e) # {}} |-> 1]

\* env_variables.project_id REFERENCES projects(id),
\* env_variables.environment_id REFERENCES environments(id)
ForeignKeysHold(projectID, environmentID) ==
    /\ \E r \in projects : r.id = projectID
    /\ \E r \in environments : r.id = environmentID

\* ------------------------------------------------------------------ calls
NoRow == [id |-> NoVarID, project_id |-> NoID, environment_id |-> NoID,
          key |-> "", value |-> "", deleted |-> FALSE]

\* A call's arguments and the locals it keeps between its statements:
\* existing is existingVar after the lookup (NoRow when the lookup returned
\* an error), rows is result.RowsAffected(), varRows the number of rows the
\* cascade of SoftDeleteProject changed (the code drops it), out is the variable and outID the
\* id of the project or environment the call returns, ok is err == nil at
\* return.  after is a history field: the value written
\* by the caller's immediately preceding call when that was a successful
\* SetEnvVariable of the same triple, and "" otherwise.
Call(op, name, projectID, environmentID, key, value) ==
    [op |-> op, name |-> name, pid |-> projectID, eid |-> environmentID,
     key |-> key, value |-> value, existing |-> NoRow, rows |-> 0, varRows |-> 0,
     out |-> NoRow, outID |-> NoID, ok |-> TRUE, after |-> ""]

\* The call record of a caller that has not called anything yet.
NoCall == Call("none", "", NoID, NoID, "", "")

\* ------------------------------------------------------------------ strings
\* A Go string is the sequence of its characters.  The characters the model
\* uses and their byte values, which sort.Strings compares.
CharCode ==
    "\t" :> 9 @@ " " :> 32 @@ "." :> 46 @@ "/" :> 47 @@ "1" :> 49 @@ "2" :> 50 @@
    "=" :> 61 @@ "a" :> 97 @@ "b" :> 98 @@ "l" :> 108 @@ "q" :> 113 @@
    "s" :> 115 @@ "t" :> 116 @@ "x" :> 120

\* s < t as Go compares strings: byte by byte, a proper prefix first.
RECURSIVE Less(_, _)
Less(s, t) ==
    IF t = <<>> THEN FALSE
    ELSE IF s = <<>> THEN TRUE
    ELSE IF Head(s) = Head(t) THEN Less(Tail(s), Tail(t))
    ELSE CharCode[Head(s)] < CharCode[Head(t)]

\* strings.HasSuffix.
HasSuffix(s, suffix) ==
    /\ Len(s) >= Len(suffix)
    /\ SubSeq(s, Len(s) - Len(suffix) + 1, Len(s)) = suffix

\* sort.Strings of a set of distinct strings.
RECURSIVE SortStrings(_)
SortStrings(S) ==
    IF S = {} THEN <<>>
    ELSE LET m == CHOOSE x \in S : \A y \in S \ {x} : Less(x, y)
         IN  <<m>> \o SortStrings(S \ {m})

\* The elements of a sequence.
Range(seq) == {seq[i] : i \in 1..Len(seq)}

\* ------------------------------------------------------------------ migration files
\* filepath.Base of the path of a file: what follows the last separator.
Base(path) ==
    LET seps == {i \in 1..Len(path) : path[i] = "/"}
    IN  IF seps = {} THEN path
        ELSE SubSeq(path, (CHOOSE i \in seps : \A j \in seps : j <= i) + 1, Len(path))

SqlSuffix == <<".", "s", "q", "l">>

\* A runner starts MigrateUp at most MaxRuns times.
MaxRuns == 3

\* Files a migration folder may hold, by their path below the folder:
\* 1.sql, 2.sql, a/2.sql, b/1.sql and x.txt.
MigrationFiles ==
    { <<"1", ".", "s", "q", "l">>,
      <<"2", ".", "s", "q", "l">>,
      <<"a", "/", "2", ".", "s", "q", "l">>,
      <<"b", "/", "1", ".", "s", "q", "l">>,
      <<"x", ".", "t", "x", "t">> }

\* NewMigrationManager: the .sql files below the folder, their paths sorted.
NewMigrationManager(files) ==
    SortStrings({path \in files : HasSuffix(path, SqlSuffix)})

\* The locals of one MigrateUp run: its position in the code, the manager's
\* list, the appliedMigrations map, the loop index, the error it returned
\* ("" for nil, else the step that failed); and, for the claims, the files whose SQL this run executed, whether
\* the run before it returned nil, and the number of runs so far.
NoRun ==
    [pc |-> "idle", migrations |-> <<>>, applied |-> {}, i |-> 1, err |-> "",
     executed |-> <<>>, prevOK |-> FALSE, n |-> 0]

\* No migration folder and no runner at work.
NoMigrationRun ==
    /\ folder = {}
    /\ schema_migrations = <<>>
    /\ committed = <<>>
    /\ run = [p \in Procs |-> NoRun]

\* ------------------------------------------------------------------ argument parsing
\* Inputs of ParseKeyValuePair: the strings of at most MaxLen characters of
\* Alphabet (a letter, the separator, a space and a tab).
MaxLen == 4
Alphabet == {"a", "=", " ", "\t"}
Inputs == UNION {[1..n -> Alphabet] : n \in 0..MaxLen}

\* The characters strings.TrimSpace removes, of those in Alphabet.
WhiteSpace == {" ", "\t"}

\* strings.TrimSpace: s without its leading and trailing white space.
TrimSpace(s) ==
    LET kept == {i \in 1..Len(s) : s[i] \notin WhiteSpace}
    IN  IF kept = {} THEN <<>>
        ELSE SubSeq(s, CHOOSE i \in kept : \A j \in kept : i <= j,
                       CHOOSE i \in kept : \A j \in kept : j <= i)

\* strings.SplitN(s, sep, n) for a one-character sep and n >= 1: s cut at
\* the first n - 1 occurrences of sep.
RECURSIVE SplitN(_, _, _)
SplitN(s, sep, n) ==
    LET at == {i \in 1..Len(s) : s[i] = sep}
    IN  IF n = 1 \/ at = {} THEN <<s>>
        ELSE LET first == CHOOSE i \in at : \A j \in at : i <= j
             IN  <<SubSeq(s, 1, first - 1)>>
                   \o SplitN(SubSeq(s, first + 1, Len(s)), sep, n - 1)

\* The nil error, and fmt.Errorf("invalid format: %s (expected key=value)",
\* input) with the two constant parts of the format as one element each.
NoError == <<>>
InvalidFormat(in) == <<"invalid format: ">> \o in \o <<" (expected key=value)">>

\* Mutant of ParseKeyValuePair: splits at every separator.
ParseKeyValuePair_SplitAll(in) ==
    LET parts == SplitN(in, "=", Len(in) + 1)
    IN  IF Len(parts) # 2 THEN <<<<>>, <<>>, InvalidFormat(in)>>
        ELSE <<TrimSpace(parts[1]), TrimSpace(parts[2]), NoError>>

\* Mutant of ParseKeyValuePair: reports the trimmed input.
ParseKeyValuePair_TrimmedMessage(in) ==
    LET parts == SplitN(in, "=", 2)
    IN  IF Len(parts) # 2 THEN <<<<>>, <<>>, InvalidFormat(TrimSpace(in))>>
        ELSE <<TrimSpace(parts[1]), TrimSpace(parts[2]), NoError>>

\* ParseKeyValuePair: <<key, value, err>>.
ParseKeyValuePair(in) ==
    LET parts == SplitN(in, "=", 2)
    IN  IF Len(parts) # 2 THEN <<<<>>, <<>>, InvalidFormat(in)>>
        ELSE <<TrimSpace(parts[1]), TrimSpace(parts[2]), NoError>>

\* Nothing has been parsed: result is the empty tuple until the call returns.
NothingParsed ==
    /\ input = <<>>
    /\ result = <<>>

\* ------------------------------------------------------------------ command line
\* The flags and inputs of an invocation.  forceChanged is
\* cmd.Flags().Changed("force"): the flag was given, with whatever value.
NoArgv ==
    [verb |-> "", project |-> "", key |-> "", run |-> "", force |-> FALSE,
     forceChanged |-> FALSE, response |-> "", fileExists |-> FALSE]

\* The process of an invocation: exit is <<>> while it runs and the exit
\* status in a tuple afterwards; left counts the projects list-projects has
\* still to print, variables is what the lookup of list returned; calls are
\* the handler calls made, shells the shells executed, each with the
\* command line and environment it got and the status it exited with.
NoProcess ==
    [pc |-> "none", exit |-> <<>>, left |-> 0, variables |-> <<>>,
     calls |-> <<>>, shells |-> <<>>]

\* No invocation of the command line tool.
NoCommand ==
    /\ argv = NoArgv
    /\ cli = NoProcess

\* The database after the migration: no project, the seeded environments, no
\* variable; every caller idle.
DatabaseMigrated ==
    /\ projects = {}
    /\ environments = {[id |-> i, name |-> SeedEnvironments[i]] : i \in 1..Len(SeedEnvironments)}
    /\ env_variables = {}
    /\ pc = [p \in Procs |-> "idle"]
    /\ call = [p \in Procs |-> NoCall]

\* The repository's initial state; no migration is running and nothing is
\* being parsed.
Init ==
    /\ DatabaseMigrated
    /\ NoMigrationRun
    /\ NothingParsed
    /\ NoCommand

\* Callers about to insert a row into projects / env_variables.
PendingProjects == Cardinality({p \in Procs : pc[p] = "CreateProject_insert"})
PendingVars ==
    Cardinality({p \in Procs : pc[p] = "SetEnvVariable_write" /\ call[p].existing.id = NoVarID})

\* The call returns: its record stays for the caller to read.
Return(self, c) ==
    /\ pc' = [pc EXCEPT ![self] = "returned"]
    /\ call' = [call EXCEPT ![self] = c]
    /\ UNCHANGED <<migVars, parseVars, cliVars>>

Goto(self, label, c) ==
    /\ pc' = [pc EXCEPT ![self] = label]
    /\ call' = [call EXCEPT ![self] = c]
    /\ UNCHANGED <<migVars, parseVars, cliVars>>

\* CreateProject, lines 24-37: the existence check.
CreateProjectCheck(self, name) ==
    /\ pc[self] = "idle"
    /\ LET c == Call("CreateProject", name, NoID, NoID, "", "")
           count == CountActiveProjects(name)
       IN  IF count > 0
           THEN Return(self, [c EXCEPT !.ok = FALSE])
           ELSE /\ Cardinality(projects) + PendingProjects < Cardinality(ProjectIDs)
                /\ Goto(self, "CreateProject_insert", c)
    /\ UNCHANGED <<projects, environments, env_variables>>

\* Mutant of CreateProjectInsert: the insert under the UNIQUE (name) constraint
\* of the CREATE TABLE, as if the migration had not dropped it.
CreateProjectInsert_UniqueName(self) ==
    /\ pc[self] = "CreateProject_insert"
    /\ LET row == [id |-> NewID(projects), name |-> call[self].name, deleted |-> FALSE]
       IN  IF \E r \in projects : r.name = row.name
           THEN /\ UNCHANGED projects
                /\ Return(self, [call[self] EXCEPT !.ok = FALSE])
           ELSE /\ projects' = projects \cup {row}
                /\ Return(self, [call[self] EXCEPT !.outID = row.id])
    /\ UNCHANGED <<environments, env_variables>>

\* Mutant of CreateProjectInsert: a soft-deleted project of the same name is
\* reactivated, as SetEnvVariable does with a soft-deleted variable.
CreateProjectInsert_Reactivate(self) ==
    /\ pc[self] = "CreateProject_insert"
    /\ LET old == {r \in projects : r.name = call[self].name /\ r.deleted}
           row == [id |-> NewID(projects), name |-> call[self].name, deleted |-> FALSE]
       IN  IF old # {}
           THEN \E r \in old :
                   /\ projects' = (projects \ {r}) \cup {[r EXCEPT !.deleted = FALSE]}
                   /\ Return(self, [call[self] EXCEPT !.outID = r.id])
           ELSE /\ projects' = projects \cup {row}
                /\ Return(self, [call[self] EXCEPT !.outID = row.id])
    /\ UNCHANGED <<environments, env_variables>>

\* CreateProject, lines 39-65: the insert.
CreateProjectInsert(self) ==
    /\ pc[self] = "CreateProject_insert"
    /\ LET row == [id |-> NewID(projects), name |-> call[self].name, deleted |-> FALSE]
       IN  /\ projects' = projects \cup {row}
           /\ Return(self, [call[self] EXCEPT !.outID = row.id])
    /\ UNCHANGED <<environments, env_variables>>

\* CreateEnvironment, lines 195-208: the existence check.
CreateEnvironmentCheck(self, name) ==
    /\ pc[self] = "idle"
    /\ LET c == Call("CreateEnvironment", name, NoID, NoID, "", "")
           count == CountEnvironments(name)
       IN  IF count > 0
           THEN Return(self, [c EXCEPT !.ok = FALSE])
           ELSE Goto(self, "CreateEnvironment_insert", c)
    /\ UNCHANGED <<projects, environments, env_variables>>

\* CreateEnvironment, lines 210-236: the insert.
CreateEnvironmentInsert(self) ==
    /\ pc[self] = "CreateEnvironment_insert"
    /\ LET row == [id |-> NewID(environments), name |-> call[self].name]
       IN  /\ environments' = environments \cup {row}
           /\ Return(self, [call[self] EXCEPT !.outID = row.id])
    /\ UNCHANGED <<projects, env_variables>>

\* Mutant of SoftDeleteProjectUpdate: the UPDATE without AND deleted_at IS
\* NULL, which changes a project that is already deleted.
SoftDeleteProjectUpdate_AnyRow(self, id) ==
    /\ pc[self] = "idle"
    /\ LET hit == {r \in projects : r.id = id}
           c == Call("SoftDeleteProject", "", id, NoID, "", "")
       IN  /\ projects' = (projects \ hit) \cup {[r EXCEPT !.deleted = TRUE] : r \in hit}
           /\ Goto(self, "SoftDeleteProject_vars", [c EXCEPT !.rows = Cardinality(hit)])
    /\ UNCHANGED <<environments, env_variables>>

\* SoftDeleteProject, lines 123-133: UPDATE projects ... WHERE id = $2 AND
\* deleted_at IS NULL; result holds the number of rows it changed.
SoftDeleteProjectUpdate(self, id) ==
    /\ pc[self] = "idle"
    /\ LET hit == {r \in projects : r.id = id /\ ~r.deleted}
           c == Call("SoftDeleteProject", "", id, NoID, "", "")
       IN  /\ projects' = (projects \ hit) \cup {[r EXCEPT !.deleted = TRUE] : r \in hit}
           /\ Goto(self, "SoftDeleteProject_vars", [c EXCEPT !.rows = Cardinality(hit)])
    /\ UNCHANGED <<environments, env_variables>>

\* Mutant of SoftDeleteProjectVars: SoftDeleteProject without the cascade to
\* env_variables.
SoftDeleteProjectVars_NoCascade(self) ==
    /\ pc[self] = "SoftDeleteProject_vars"
    /\ Return(self, [call[self] EXCEPT !.ok = (call[self].rows # 0)])
    /\ UNCHANGED <<projects, environments, env_variables>>

\* SoftDeleteProject, lines 135-155: UPDATE env_variables ... WHERE project_id
\* = $2 AND deleted_at IS NULL, then the test of result.RowsAffected().
SoftDeleteProjectVars(self) ==
    /\ pc[self] = "SoftDeleteProject_vars"
    /\ LET hit == {r \in env_variables : r.project_id = call[self].pid /\ ~r.deleted}
       IN  /\ env_variables' =
                (env_variables \ hit) \cup {[r EXCEPT !.deleted = TRUE] : r \in hit}
           /\ Return(self, [call[self] EXCEPT !.varRows = Cardinality(hit),
                                              !.ok = (call[self].rows # 0)])
    /\ UNCHANGED <<projects, environments>>

\* The history field of a SetEnvVariable call that follows the caller's
\* last call.
After(last, projectID, environmentID, key) ==
    IF /\ last.op = "SetEnvVariable" /\ last.ok
       /\ last.pid = projectID /\ last.eid = environmentID /\ last.key = key
    THEN last.value
    ELSE ""

\* SetEnvVariable, lines 241-251: the existence lookup.  db.Get scans the
\* first row of the result into existingVar (any row: the query has no ORDER
\* BY) and returns an error when there is none.
SetEnvVariableLookup(self, projectID, environmentID, key, value) ==
    /\ pc[self] = "idle"
    /\ LET found == SelectVariable(projectID, environmentID, key)
           c == [Call("SetEnvVariable", "", projectID, environmentID, key, value)
                    EXCEPT !.after = After(call[self], projectID, environmentID, key)]
       IN  IF found # {}
           THEN \E r \in found :
                    Goto(self, "SetEnvVariable_write", [c EXCEPT !.existing = r])
           ELSE /\ \/ ~ForeignKeysHold(projectID, environmentID)
                   \/ Cardinality(env_variables) + PendingVars < MaxVars
                /\ Goto(self, "SetEnvVariable_write", c)
    /\ UNCHANGED <<projects, environments, env_variables>>

\* SetEnvVariable, lines 251-253 and 287: db.Get returns an error that is
\* not sql.ErrNoRows (the connection, the context, the scan).  The code
\* tests only err == nil, so it goes on to the INSERT with existingVar empty.
SetEnvVariableLookupError(self, projectID, environmentID, key, value) ==
    /\ pc[self] = "idle"
    /\ Cardinality(env_variables) + PendingVars < MaxVars
    /\ Goto(self, "SetEnvVariable_write",
            [Call("SetEnvVariable", "", projectID, environmentID, key, value)
                EXCEPT !.after = After(call[self], projectID, environmentID, key)])
    /\ UNCHANGED <<projects, environments, env_variables>>

\* Mutant of UpdateVariable: only updated_at is set.
UpdateVariable_KeepValue(r, value) == r

\* updateQuery: SET value = $1, updated_at = $2
UpdateVariable(r, value) == [r EXCEPT !.value = value]

\* Mutant of ReactivateVariable: deleted_at = NULL is left out.
ReactivateVariable_KeepDeleted(r, value) == [r EXCEPT !.value = value]

\* reactivateQuery: SET value = $1, updated_at = $2, deleted_at = NULL
ReactivateVariable(r, value) == [r EXCEPT !.value = value, !.deleted = FALSE]

\* Mutant of UpdateByID: the UPDATE with WHERE project_id = $3, which sets
\* the value and deleted_at of every variable row of the project.
UpdateByID_WholeProject(id, new) ==
    {IF r.project_id = new.project_id
     THEN [r EXCEPT !.value = new.value, !.deleted = new.deleted]
     ELSE r : r \in env_variables}

\* UPDATE env_variables SET ... WHERE id = $3: the table with the row of that
\* id replaced by the row new.
UpdateByID(id, new) ==
    {IF r.id = id THEN new ELSE r : r \in env_variables}

\* SetEnvVariable, lines 253-319: update, reactivate or insert, by what the
\* lookup left in existingVar.
SetEnvVariableWrite(self) ==
    /\ pc[self] = "SetEnvVariable_write"
    /\ LET c == call[self]
           existingVar == c.existing
           current == CHOOSE r \in env_variables : r.id = existingVar.id
           updated == UpdateVariable(current, c.value)
           reactivated == ReactivateVariable(current, c.value)
           newVar == [id |-> NewVarID(c.pid, c.eid, c.key), project_id |-> c.pid,
                      environment_id |-> c.eid, key |-> c.key, value |-> c.value,
                      deleted |-> FALSE]
       IN  IF existingVar.id # NoVarID
           THEN IF ~existingVar.deleted
                THEN /\ env_variables' = UpdateByID(existingVar.id, updated)
                     /\ Return(self, [c EXCEPT !.out = updated])
                ELSE /\ env_variables' = UpdateByID(existingVar.id, reactivated)
                     /\ Return(self, [c EXCEPT !.out = reactivated])
           ELSE IF ForeignKeysHold(c.pid, c.eid)
                THEN /\ env_variables' = env_variables \cup {newVar}
                     /\ Return(self, [c EXCEPT !.out = newVar])
                ELSE /\ UNCHANGED env_variables
                     /\ Return(self, [c EXCEPT !.ok = FALSE])
    /\ UNCHANGED <<projects, environments>>

\* Mutant of DeleteEnvVariable: the UPDATE without AND deleted_at IS NULL.
DeleteEnvVariable_AnyRow(self, projectID, environmentID, key) ==
    /\ pc[self] = "idle"
    /\ LET hit == {r \in env_variables : /\ r.project_id = projectID
                                           /\ r.environment_id = environmentID
                                           /\ r.key = key}
           c == Call("DeleteEnvVariable", "", projectID, environmentID, key, "")
       IN  /\ env_variables' =
                (env_variables \ hit) \cup {[r EXCEPT !.deleted = TRUE] : r \in hit}
           /\ Return(self, [c EXCEPT !.rows = Cardinality(hit),
                                     !.ok = (Cardinality(hit) # 0)])
    /\ UNCHANGED <<projects, environments>>

\* DeleteEnvVariable, lines 359-380: one UPDATE and the test of RowsAffected.
DeleteEnvVariable(self, projectID, environmentID, key) ==
    /\ pc[self] = "idle"
    /\ LET hit == {r \in env_variables : /\ r.project_id = projectID
                                           /\ r.environment_id = environmentID
                                           /\ r.key = key
                                           /\ ~r.deleted}
           c == Call("DeleteEnvVariable", "", projectID, environmentID, key, "")
       IN  /\ env_variables' =
                (env_variables \ hit) \cup {[r EXCEPT !.deleted = TRUE] : r \in hit}
           /\ Return(self, [c EXCEPT !.rows = Cardinality(hit),
                                     !.ok = (Cardinality(hit) # 0)])
    /\ UNCHANGED <<projects, environments>>

\* The caller has read the result and is ready for its next call.  What it
\* keeps of a successful SetEnvVariable is what the history field after reads.
Forget(self) ==
    /\ pc[self] = "returned"
    /\ pc' = [pc EXCEPT ![self] = "idle"]
    /\ call' = [call EXCEPT ![self] =
                  IF call[self].op = "SetEnvVariable" /\ call[self].ok
                  THEN Call("SetEnvVariable", "", call[self].pid, call[self].eid,
                            call[self].key, call[self].value)
                  ELSE NoCall]
    /\ UNCHANGED <<projects, environments, env_variables, migVars, parseVars, cliVars>>

\* ------------------------------------------------------------------ MigrateUp
\* Mutant of PrimaryKeyAllows: schema_migrations without its primary key.
PrimaryKeyAllows_Any(version) == TRUE

\* version VARCHAR(255) PRIMARY KEY: the INSERT of a version already in
\* schema_migrations fails.
PrimaryKeyAllows(version) == version \notin Range(schema_migrations)

\* Mutant of LoadApplied: the appliedMigrations map is left empty.
LoadApplied_Nothing(rows) == {}

\* Lines 60-74: the versions of schema_migrations, as the map's keys.
LoadApplied(rows) == Range(rows)

\* How one iteration of the loop may end: the transaction commits, or
\* reading the file or beginning the transaction fails, or the migration's
\* SQL fails, or the INSERT into schema_migrations fails, or the commit fails.
Outcomes == {"ok", "read", "exec", "record", "commit"}

\* NewMigrationManager and MigrateUp up to its loop (lines 48-74): the
\* manager lists the folder, CREATE TABLE IF NOT EXISTS keeps an existing
\* table, and appliedMigrations is read once.
MigrateUpLoad(self) ==
    /\ run[self].pc \in {"idle", "returned"}
    /\ run[self].n < MaxRuns
    /\ run' = [run EXCEPT ![self] =
                 [pc |-> "loop",
                  migrations |-> NewMigrationManager(folder),
                  applied |-> LoadApplied(schema_migrations),
                  i |-> 1, err |-> "", executed |-> <<>>,
                  prevOK |-> (run[self].pc = "returned" /\ run[self].err = ""),
                  n |-> run[self].n + 1]]
    /\ UNCHANGED <<folder, schema_migrations, committed, repoVars, parseVars, cliVars>>

\* Lines 77-82: a migration whose base name is in appliedMigrations is skipped.
MigrateUpSkip(self) ==
    /\ run[self].pc = "loop"
    /\ run[self].i <= Len(run[self].migrations)
    /\ Base(run[self].migrations[run[self].i]) \in run[self].applied
    /\ run' = [run EXCEPT ![self].i = @ + 1]
    /\ UNCHANGED <<folder, schema_migrations, committed, repoVars, parseVars, cliVars>>

\* Mutant of MigrateUpApply: the migration's SQL and the INSERT are not in
\* one transaction, a failing INSERT leaves the SQL committed.
MigrateUpApply_NoTransaction(self, outcome) ==
    /\ run[self].pc = "loop"
    /\ run[self].i <= Len(run[self].migrations)
    /\ LET path == run[self].migrations[run[self].i]
           version == Base(path)
           recorded == outcome = "ok" /\ PrimaryKeyAllows(version)
       IN  /\ version \notin run[self].applied
           /\ committed' = IF outcome \in {"read", "exec"} THEN committed
                           ELSE Append(committed, path)
           /\ schema_migrations' = IF recorded THEN Append(schema_migrations, version)
                                   ELSE schema_migrations
           /\ run' = [run EXCEPT
                        ![self].executed = IF outcome = "read" THEN @
                                             ELSE Append(@, path),
                        ![self].i = IF recorded THEN @ + 1 ELSE @,
                        ![self].pc = IF recorded THEN "loop" ELSE "returned",
                        ![self].err = IF recorded THEN ""
                                      ELSE IF outcome = "ok" THEN "record"
                                      ELSE outcome]
    /\ UNCHANGED <<folder, repoVars, parseVars, cliVars>>

\* Lines 84-112: the transaction of one migration that is not in
\* appliedMigrations.  Its SQL and the INSERT of its base name are committed
\* together; when either fails the transaction is rolled back and MigrateUp
\* returns the error.
MigrateUpApply(self, outcome) ==
    /\ run[self].pc = "loop"
    /\ run[self].i <= Len(run[self].migrations)
    /\ LET path == run[self].migrations[run[self].i]
           version == Base(path)
           recorded == outcome = "ok" /\ PrimaryKeyAllows(version)
       IN  /\ version \notin run[self].applied
           /\ committed' = IF recorded THEN Append(committed, path) ELSE committed
           /\ schema_migrations' = IF recorded THEN Append(schema_migrations, version)
                                   ELSE schema_migrations
           /\ run' = [run EXCEPT
                        ![self].executed = IF outcome = "read" THEN @
                                             ELSE Append(@, path),
                        ![self].i = IF recorded THEN @ + 1 ELSE @,
                        ![self].pc = IF recorded THEN "loop" ELSE "returned",
                        ![self].err = IF recorded THEN ""
                                      ELSE IF outcome = "ok" THEN "record"
                                      ELSE outcome]
    /\ UNCHANGED <<folder, repoVars, parseVars, cliVars>>

\* Line 115: every migration was skipped or committed, MigrateUp returns nil.
MigrateUpReturn(self) ==
    /\ run[self].pc = "loop"
    /\ run[self].i > Len(run[self].migrations)
    /\ run' = [run EXCEPT ![self].pc = "returned"]
    /\ UNCHANGED <<folder, schema_migrations, committed, repoVars, parseVars, cliVars>>

\* The transaction of one migration statement by statement, for runs that
\* interleave.  The migration a runner is at, and its version.
Current(self) == run[self].migrations[run[self].i]

\* The runner's transaction ends without a commit and MigrateUp returns err.
Abort(self, err, sql) ==
    /\ run' = [run EXCEPT ![self].pc = "returned", ![self].err = err,
                          ![self].executed = @ \o sql]
    /\ UNCHANGED <<folder, schema_migrations, committed, repoVars, parseVars, cliVars>>

\* Lines 84-101: ReadFile, Begin and tx.Exec of the migration's SQL, whose
\* effects stay invisible to others until the commit.
MigrateUpExec(self, outcome) ==
    /\ run[self].pc = "loop"
    /\ run[self].i <= Len(run[self].migrations)
    /\ Base(Current(self)) \notin run[self].applied
    /\ IF outcome = "read" THEN Abort(self, "read", <<>>)
       ELSE IF outcome = "exec" THEN Abort(self, "exec", <<Current(self)>>)
       ELSE /\ run' = [run EXCEPT ![self].pc = "record",
                                  ![self].executed = Append(@, Current(self))]
            /\ UNCHANGED <<folder, schema_migrations, committed, repoVars, parseVars, cliVars>>

\* Lines 103-106: the INSERT into schema_migrations.  It waits while another
\* transaction holds an uncommitted row of the same version, and fails on
\* the primary key when the version is committed.
MigrateUpRecord(self, outcome) ==
    /\ run[self].pc = "record"
    /\ \A other \in Procs \ {self} :
          ~(run[other].pc = "commit" /\ Base(Current(other)) = Base(Current(self)))
    /\ IF outcome = "ok" /\ PrimaryKeyAllows(Base(Current(self)))
       THEN /\ run' = [run EXCEPT ![self].pc = "commit"]
            /\ UNCHANGED <<folder, schema_migrations, committed, repoVars, parseVars, cliVars>>
       ELSE Abort(self, "record", <<>>)

\* Lines 108-112: tx.Commit makes the migration's SQL and its row visible.
MigrateUpCommit(self, outcome) ==
    /\ run[self].pc = "commit"
    /\ IF outcome = "ok"
       THEN /\ committed' = Append(committed, Current(self))
            /\ schema_migrations' = Append(schema_migrations, Base(Current(self)))
            /\ run' = [run EXCEPT ![self].pc = "loop", ![self].i = @ + 1]
            /\ UNCHANGED <<folder, repoVars, parseVars, cliVars>>
       ELSE Abort(self, "commit", <<>>)

\* ------------------------------------------------------------------ ParseKeyValuePair
\* The call ParseKeyValuePair(input).
Parse ==
    /\ result = <<>>
    /\ result' = ParseKeyValuePair(input)
    /\ UNCHANGED <<input, repoVars, migVars, cliVars>>

\* ------------------------------------------------------------------ commands
\* The commands modelled, and those that need --project.
Verbs == {"list", "delete-project", "export", "list-projects", "get"}
NeedProject == Verbs \ {"list-projects"}

\* What the user may type at a confirmation prompt.
Responses == {"y", "Y", "n", ""}

\* The variables a lookup of the list command may return (any prefix), the
\* environment the tool inherits, and the exit statuses of a child.
StoredVariables == <<[Key |-> "K1", Value |-> "v1"], [Key |-> "K2", Value |-> "v2"]>>
Environ == <<"PATH=/bin">>
ChildExitCodes == {0, 1, 3}
\* handler.ListProjects returns at most that many projects.
MaxListed == 2

\* os.Exit(code), or Run returning (code 0) and Execute with it.
Exit(code) ==
    /\ cli' = [cli EXCEPT !.pc = "exited", !.exit = <<code>>]
    /\ UNCHANGED <<argv, repoVars, migVars, parseVars>>

\* Control moves on; the handler call made on the way, if any, is recorded.
Step(label, calls) ==
    /\ cli' = [cli EXCEPT !.pc = label, !.calls = @ \o calls]
    /\ UNCHANGED <<argv, repoVars, migVars, parseVars>>

\* A handler call returned an error: the command prints it and exits 1.
Fail(calls) ==
    /\ cli' = [cli EXCEPT !.pc = "exited", !.exit = <<1>>, !.calls = @ \o calls]
    /\ UNCHANGED <<argv, repoVars, migVars, parseVars>>

\* A handler call returned nil and the command returns.
Done(calls) ==
    /\ cli' = [cli EXCEPT !.pc = "exited", !.exit = <<0>>, !.calls = @ \o calls]
    /\ UNCHANGED <<argv, repoVars, migVars, parseVars>>

HandlerCall(name, ok) == <<[name |-> name, ok |-> ok]>>

\* The flag validation at the head of each Run function.
ValidateFlags ==
    /\ cli.pc = "start"
    /\ IF argv.verb \in NeedProject /\ argv.project = "" THEN Exit(1)
       ELSE IF argv.verb = "get" /\ argv.key = "" THEN Exit(1)
       ELSE IF argv.verb \in {"delete-project", "export"} THEN Step("confirm", <<>>)
       ELSE Step("init", <<>>)

\* root.go lines 144 and 502: the prompt is shown unless force is true or
\* the flag was given.
NeedsConfirmation == ~argv.force /\ ~argv.forceChanged

\* exportCmd lines 142-153 and softDeleteProjectCmd lines 501-510: the
\* confirmation.  export asks only when the file exists.
Confirm ==
    /\ cli.pc = "confirm"
    /\ LET asked == /\ argv.verb = "export" => argv.fileExists
                    /\ NeedsConfirmation
       IN  IF asked /\ argv.response \notin {"y", "Y"}
           THEN Exit(0)
           ELSE Step("init", <<>>)

\* initHandler: configuration and database connection.
InitHandler(ok) ==
    /\ cli.pc = "init"
    /\ IF ok THEN Step(argv.verb, <<>>) ELSE Exit(1)

\* softDeleteProjectCmd lines 519-526.
DeleteProjectCmd(ok) ==
    /\ cli.pc = "delete-project"
    /\ IF ok THEN Done(HandlerCall("SoftDeleteProject", TRUE))
       ELSE Fail(HandlerCall("SoftDeleteProject", FALSE))

\* exportCmd lines 162-170.
ExportCmd(ok) ==
    /\ cli.pc = "export"
    /\ IF ok THEN Done(HandlerCall("ExportEnvFile", TRUE))
       ELSE Fail(HandlerCall("ExportEnvFile", FALSE))

\* getEnvCmd lines 318-326.
GetEnvCmd(ok) ==
    /\ cli.pc = "get"
    /\ IF ok THEN Done(HandlerCall("GetEnvVariable", TRUE))
       ELSE Fail(HandlerCall("GetEnvVariable", FALSE))

\* listProjectsCmd lines 186-197: handler.ListProjects returns an error or
\* n projects.
ListProjectsCmd(ok, n) ==
    /\ cli.pc = "list-projects"
    /\ IF ~ok THEN Fail(HandlerCall("ListProjects", FALSE))
       ELSE IF n = 0 THEN Done(HandlerCall("ListProjects", TRUE))
       ELSE /\ cli' = [cli EXCEPT !.pc = "environments", !.left = n,
                                  !.calls = @ \o HandlerCall("ListProjects", TRUE)]
            /\ UNCHANGED <<argv, repoVars, migVars, parseVars>>

\* listProjectsCmd lines 201-216: one project of the loop.  The error of
\* handler.GetEnvironmentsForProject only decides whether the environments
\* are printed.
ListProjectsEnvironments(ok) ==
    /\ cli.pc = "environments"
    /\ cli' = [cli EXCEPT !.left = @ - 1,
                          !.calls = @ \o HandlerCall("GetEnvironmentsForProject", ok),
                          !.pc = IF cli.left = 1 THEN "exited" ELSE @,
                          !.exit = IF cli.left = 1 THEN <<0>> ELSE @]
    /\ UNCHANGED <<argv, repoVars, migVars, parseVars>>

\* listEnvCmd lines 395-425: the lookup (by pattern when --filter is given)
\* returns an error or the first n stored variables.
ListEnvCmd(ok, n) ==
    /\ cli.pc = "list"
    /\ LET name == IF argv.key # "" THEN "SearchEnvVariables" ELSE "ListEnvVariables"
       IN  IF ~ok THEN Fail(HandlerCall(name, FALSE))
           ELSE IF n = 0 \/ argv.run = "" THEN Done(HandlerCall(name, TRUE))
           ELSE /\ cli' = [cli EXCEPT !.pc = "run",
                                      !.variables = SubSeq(StoredVariables, 1, n),
                                      !.calls = @ \o HandlerCall(name, TRUE)]
                /\ UNCHANGED <<argv, repoVars, migVars, parseVars>>

\* fmt.Sprintf("%s=%s", v.Key, v.Value), the three parts as they are.
KeyValue(v) == <<v.Key, "=", v.Value>>

\* listEnvCmd lines 427-436 and runCommandWithEnv: sh -c command with the
\* variables appended to os.Environ().  started is FALSE when cmd.Run fails
\* without an exit status (the shell cannot be started); code is the exit
\* status of the child.
RunCommandWithEnv(started, code) ==
    /\ cli.pc = "run"
    /\ IF argv.run = "" \/ ~started THEN Exit(1)
       ELSE /\ cli' = [cli EXCEPT
                         !.pc = "exited", !.exit = <<code>>,
                         !.shells = Append(@,
                            [command |-> argv.run, code |-> code,
                             env |-> Environ \o [i \in 1..Len(cli.variables) |->
                                                   KeyValue(cli.variables[i])]])]
            /\ UNCHANGED <<argv, repoVars, migVars, parseVars>>

\* ------------------------------------------------------------------ specifications
\* One statement of one project call of caller self, the arguments drawn
\* from the given sets.
ProjectStep(self, names, pids) ==
    \/ \E name \in names : CreateProjectCheck(self, name)
    \/ CreateProjectInsert(self)
    \/ \E id \in pids : SoftDeleteProjectUpdate(self, id)
    \/ SoftDeleteProjectVars(self)

\* One statement of one variable call of caller self.
VarStep(self, pids, eids, keys, values) ==
    \/ \E p \in pids, e \in eids, k \in keys, v \in values :
            SetEnvVariableLookup(self, p, e, k, v)
    \/ SetEnvVariableWrite(self)
    \/ \E p \in pids, e \in eids, k \in keys :
            DeleteEnvVariable(self, p, e, k)

\* One statement of one CreateEnvironment call of caller self.
EnvStep(self, envNames) ==
    \/ \E name \in envNames : CreateEnvironmentCheck(self, name)
    \/ CreateEnvironmentInsert(self)

\* Sequential use: one caller, each call runs to its return before the next.
Next ==
    \/ ProjectStep(1, Names, ProjectIDs)
    \/ VarStep(1, ProjectIDs, EnvArgs, Keys, Values)
    \/ Forget(1)

Spec == Init /\ [][Next]_vars

\* Concurrent use: two CLI invocations against the same database, their
\* statements interleaving freely.
RaceNames == {"app"}
RaceProjects == {1}
RaceEnvs == {1}
RaceKeys == {"K1"}

\* Project and variable calls on one project name and one variable triple.
NextConc ==
    \E self \in Procs :
        \/ ProjectStep(self, RaceNames, RaceProjects)
        \/ VarStep(self, RaceProjects, RaceEnvs, RaceKeys, Values)
        \/ Forget(self)

SpecConc == Init /\ [][NextConc]_vars

\* Sequential use in which the existence lookup of SetEnvVariable may fail:
\* one caller, one project name and one variable triple.
NextFault ==
    \/ ProjectStep(1, RaceNames, RaceProjects)
    \/ VarStep(1, RaceProjects, RaceEnvs, RaceKeys, Values)
    \/ \E p \in RaceProjects, e \in RaceEnvs, k \in RaceKeys, v \in Values :
            SetEnvVariableLookupError(1, p, e, k, v)
    \/ Forget(1)

SpecFault == Init /\ [][NextFault]_vars

\* Project and environment creation and project deletion.
NextCreate ==
    \E self \in Procs :
        \/ ProjectStep(self, Names, ProjectIDs)
        \/ EnvStep(self, NewEnvNames)
        \/ Forget(self)

SpecCreate == Init /\ [][NextCreate]_vars

\* MigrateUp runs one after the other against one database and one
\* migration folder, any set of the files, the database without
\* schema_migrations rows at first.
InitMigrate ==
    /\ DatabaseMigrated
    /\ folder \in SUBSET MigrationFiles
    /\ schema_migrations = <<>>
    /\ committed = <<>>
    /\ run = [p \in Procs |-> NoRun]
    /\ NothingParsed
    /\ NoCommand

NextMigrate ==
    \/ MigrateUpLoad(1)
    \/ MigrateUpSkip(1)
    \/ \E outcome \in Outcomes : MigrateUpApply(1, outcome)
    \/ MigrateUpReturn(1)

SpecMigrate == InitMigrate /\ [][NextMigrate]_vars

\* Two MigrateUp runs at a time against one database and one folder, their
\* statements interleaving.
NextMigrateConc ==
    \E self \in Procs :
        \/ MigrateUpLoad(self)
        \/ MigrateUpSkip(self)
        \/ \E outcome \in {"ok", "read", "exec"} : MigrateUpExec(self, outcome)
        \/ \E outcome \in {"ok", "record"} : MigrateUpRecord(self, outcome)
        \/ \E outcome \in {"ok", "commit"} : MigrateUpCommit(self, outcome)
        \/ MigrateUpReturn(self)

SpecMigrateConc == InitMigrate /\ [][NextMigrateConc]_vars

\* ParseKeyValuePair applied to any input.
InitParse ==
    /\ DatabaseMigrated
    /\ NoMigrationRun
    /\ input \in Inputs
    /\ result = <<>>
    /\ NoCommand

SpecParse == InitParse /\ [][Parse]_vars

\* One invocation of the command line tool, with any flags and inputs.
InitCli ==
    /\ DatabaseMigrated
    /\ NoMigrationRun
    /\ NothingParsed
    /\ argv \in [verb : Verbs, project : {"", "app"}, key : {"", "K1"},
                 run : {"", "make run"}, force : BOOLEAN, forceChanged : BOOLEAN,
                 response : Responses, fileExists : BOOLEAN]
    /\ argv.force => argv.forceChanged
    /\ cli = [NoProcess EXCEPT !.pc = "start"]

NextCli ==
    \/ ValidateFlags
    \/ Confirm
    \/ \E ok \in BOOLEAN : InitHandler(ok)
    \/ \E ok \in BOOLEAN : DeleteProjectCmd(ok)
    \/ \E ok \in BOOLEAN : ExportCmd(ok)
    \/ \E ok \in BOOLEAN : GetEnvCmd(ok)
    \/ \E ok \in BOOLEAN, n \in 0..MaxListed : ListProjectsCmd(ok, n)
    \/ \E ok \in BOOLEAN : ListProjectsEnvironments(ok)
    \/ \E ok \in BOOLEAN, n \in 0..Len(StoredVariables) : ListEnvCmd(ok, n)
    \/ \E started \in BOOLEAN, code \in ChildExitCodes : RunCommandWithEnv(started, code)

SpecCli == InitCli /\ [][NextCli]_vars

\* ------------------------------------------------------------------ claims
\* The variable triples and the callers' states the claims speak of.
Triples == {<<p, e, k>> : p \in ProjectIDs, e \in EnvArgs, k \in Keys}
Rows(t) ==
    {r \in env_variables : <<r.project_id, r.environment_id, r.key>> = t}
ActiveRows(t) == {r \in Rows(t) : ~r.deleted}
Returned(self, op) == pc[self] = "returned" /\ call[self].op = op
TripleOf(c) == <<c.pid, c.eid, c.key>>

C2_SetTwiceKeepsLatest ==
    (/\ Returned(1, "SetEnvVariable")
     /\ call[1].after # ""
     /\ call[1].after # call[1].value)
    => /\ Cardinality(ActiveRows(TripleOf(call[1]))) = 1
       /\ \A r \in ActiveRows(TripleOf(call[1])) : r.value = call[1].value

\* C2 witness: the second of two such calls has returned.
C2_Witness ==
    /\ Returned(1, "SetEnvVariable")
    /\ call[1].after = "v1" /\ call[1].value = "v2"
    /\ \E r \in ActiveRows(TripleOf(call[1])) : r.value = "v2"

\* C3: SetEnvVariable on a triple whose only row is soft-deleted reactivates
\* that row: same id, deleted_at unset, the new value, and no second row for
\* the triple.
C3_ReactivatesSameRow ==
    [][\A t \in Triples : \A old \in Rows(t) :
         (/\ pc[1] = "idle" /\ pc'[1] = "SetEnvVariable_write"
          /\ TripleOf(call'[1]) = t
          /\ Rows(t) = {old} /\ old.deleted)
         => call'[1].existing = old]_vars
    /\
    [][\A t \in Triples : \A old \in Rows(t) :
         (/\ pc[1] = "SetEnvVariable_write" /\ TripleOf(call[1]) = t
          /\ Rows(t) = {old} /\ old.deleted)
         => LET new == [old EXCEPT !.value = call[1].value, !.deleted = FALSE]
            IN  /\ Rows(t)' = {new}
                /\ pc'[1] = "returned" /\ call'[1].ok /\ call'[1].out = new]_vars

\* C3 witness: a call has returned the reactivated row, with the value
\* changed.
C3_Witness ==
    /\ Returned(1, "SetEnvVariable") /\ call[1].ok
    /\ call[1].existing.deleted
    /\ call[1].existing.value # call[1].value
    /\ call[1].out.id = call[1].existing.id
    /\ Rows(TripleOf(call[1])) = {call[1].out}

\* C4: after SetEnvVariable(p, e, k, v) returns successfully, the returned
\* variable has key k and value v, and GetEnvVariable(p, e, k) succeeds and
\* returns value v.
C4_SetThenGet ==
    (Returned(1, "SetEnvVariable") /\ call[1].ok)
    => /\ call[1].out.key = call[1].key
       /\ call[1].out.value = call[1].value
       /\ GetEnvVariable(call[1].pid, call[1].eid, call[1].key) # {}
       /\ \A r \in GetEnvVariable(call[1].pid, call[1].eid, call[1].key) :
              r.value = call[1].value

\* C4 witness: the call found the triple soft-deleted and the value read
\* back is the new one.
C4_Witness ==
    /\ Returned(1, "SetEnvVariable") /\ call[1].ok
    /\ call[1].existing.deleted
    /\ call[1].existing.value # call[1].value
    /\ \E r \in GetEnvVariable(call[1].pid, call[1].eid, call[1].key) :
           r.value = call[1].value

ProjectActive(id) == \E r \in projects : r.id = id /\ ~r.deleted
KeysOf(rows) == {r.key : r \in rows}

\* C5: after DeleteEnvVariable(p, e, k) succeeds, GetEnvVariable(p, e, k)
\* returns not-found, and GetEnvVariables(p, e) does not contain k, until the
\* next SetEnvVariable of the triple.  First conjunct: the state a successful
\* DeleteEnvVariable returns in; second: from then on (the triple has rows
\* and Get finds none) every step that is not the write of a SetEnvVariable
\* of the triple keeps it so.
C5_DeletedUntilSet ==
    /\ [][\A t \in Triples :
            (/\ pc[1] = "idle" /\ pc'[1] = "returned"
             /\ call'[1].op = "DeleteEnvVariable" /\ call'[1].ok
             /\ TripleOf(call'[1]) = t)
            => /\ GetEnvVariable(t[1], t[2], t[3])' = {}
               /\ t[3] \notin KeysOf(GetEnvVariables(t[1], t[2]))'
               /\ Rows(t)' # {}]_vars
    /\ [][\A t \in Triples :
            (/\ Rows(t) # {}
             /\ GetEnvVariable(t[1], t[2], t[3]) = {}
             /\ ~(pc[1] = "SetEnvVariable_write" /\ TripleOf(call[1]) = t))
            => /\ GetEnvVariable(t[1], t[2], t[3])' = {}
               /\ t[3] \notin KeysOf(GetEnvVariables(t[1], t[2]))']_vars

\* C5 witness: a key deleted from an active project is still not found after
\* a later successful SetEnvVariable of another key of the same project and
\* environment, which GetEnvVariables returns.
C5_Witness ==
    \E t \in Triples :
        /\ Rows(t) # {} /\ GetEnvVariable(t[1], t[2], t[3]) = {}
        /\ ProjectActive(t[1])
        /\ Returned(1, "SetEnvVariable") /\ call[1].ok
        /\ call[1].pid = t[1] /\ call[1].eid = t[2] /\ call[1].key # t[3]
        /\ KeysOf(GetEnvVariables(t[1], t[2])) = {call[1].key}

\* C6: after SoftDeleteProject(id) succeeds, no row of env_variables with
\* that project_id is active, GetAllProjects does not return the project and
\* GetProjectByName of its name does not return it.
C6_SoftDeleteCascades ==
    (Returned(1, "SoftDeleteProject") /\ call[1].ok)
    => /\ \A r \in env_variables : r.project_id = call[1].pid => r.deleted
       /\ \A r \in GetAllProjects : r.id # call[1].pid
       /\ \A q \in projects : q.id = call[1].pid =>
              \A r \in GetProjectByName(q.name) : r.id # call[1].pid

\* C6 witness: the call deleted two active variables of the project, in two
\* environments.
C6_Witness ==
    /\ Returned(1, "SoftDeleteProject") /\ call[1].ok
    /\ call[1].varRows = 2
    /\ \E r1, r2 \in env_variables :
          /\ r1.project_id = call[1].pid /\ r2.project_id = call[1].pid
          /\ r1.environment_id # r2.environment_id

\* C7: SoftDeleteProject(id) returns an error whenever no active project has
\* that id, never created or already soft-deleted.  First conjunct: the
\* UPDATE of projects then changes no row; second: the call then returns an
\* error.
C7_SoftDeleteMissingFails ==
    /\ [][(/\ pc[1] = "idle" /\ pc'[1] = "SoftDeleteProject_vars"
           /\ ~ProjectActive(call'[1].pid))
          => call'[1].rows = 0]_vars
    /\ [][(pc[1] = "SoftDeleteProject_vars" /\ call[1].rows = 0)
          => (pc'[1] = "returned" /\ ~call'[1].ok)]_vars

\* C7 witness: a SoftDeleteProject of an already soft-deleted project has
\* returned an error.
C7_Witness ==
    /\ Returned(1, "SoftDeleteProject") /\ ~call[1].ok
    /\ \E r \in projects : r.id = call[1].pid /\ r.deleted

ActiveNamed(name) == {r \in projects : r.name = name /\ ~r.deleted}

\* C8: CreateProject(name) fails and inserts nothing when an active project
\* with that name exists; when every project with that name is soft-deleted
\* it succeeds and inserts an active project with a new id; so at most one
\* active project per name exists.  First conjunct: the check; second: the
\* insert; third: the invariant.
C8_CreateProjectUniqueActive ==
    /\ [][(pc[1] = "idle" /\ pc'[1] # "idle" /\ call'[1].op = "CreateProject")
          => IF ActiveNamed(call'[1].name) # {}
             THEN pc'[1] = "returned" /\ ~call'[1].ok /\ projects' = projects
             ELSE pc'[1] = "CreateProject_insert"]_vars
    /\ [][pc[1] = "CreateProject_insert"
          => /\ pc'[1] = "returned" /\ call'[1].ok
             /\ \A r \in projects : r.id # call'[1].outID
             /\ projects' = projects \cup
                  {[id |-> call'[1].outID, name |-> call[1].name, deleted |-> FALSE]}]_vars
    /\ [](\A name \in Names : Cardinality(ActiveNamed(name)) <= 1)

\* C8 witness: CreateProject has succeeded for a name a soft-deleted project
\* has.
C8_Witness ==
    /\ Returned(1, "CreateProject") /\ call[1].ok
    /\ \E old, new \in projects :
          /\ old.name = call[1].name /\ old.deleted
          /\ new.name = call[1].name /\ ~new.deleted
          /\ new.id = call[1].outID /\ new.id # old.id

EnvNamed(name) == {r \in environments : r.name = name}

\* C9: two concurrent CreateProject calls with the same name (and two
\* CreateEnvironment calls) can both pass the existence check before either
\* inserts; both then return success and two active rows with that name
\* exist.  The formula: nothing a caller does after another caller's check
\* makes that caller's insert fail, every insert returns success and adds a
\* row with the name; the witness is the interleaving.
C9_InsertAfterCheckSucceeds ==
    /\ [][\A self \in Procs :
            (pc[self] = "CreateProject_insert" /\ pc'[self] # pc[self])
            => /\ pc'[self] = "returned" /\ call'[self].ok
               /\ call'[self].outID \notin {r.id : r \in projects}
               /\ ActiveNamed(call[self].name)' =
                    ActiveNamed(call[self].name) \cup
                      {[id |-> call'[self].outID, name |-> call[self].name,
                        deleted |-> FALSE]}]_vars
    /\ [][\A self \in Procs :
            (pc[self] = "CreateEnvironment_insert" /\ pc'[self] # pc[self])
            => /\ pc'[self] = "returned" /\ call'[self].ok
               /\ call'[self].outID \notin {r.id : r \in environments}
               /\ EnvNamed(call[self].name)' =
                    EnvNamed(call[self].name) \cup
                      {[id |-> call'[self].outID, name |-> call[self].name]}]_vars

\* C9 witness: both callers have returned success from CreateProject of the
\* same name with different ids, both rows are active, and two environments
\* have the same name.
C9_Witness ==
    /\ Returned(1, "CreateProject") /\ call[1].ok
    /\ Returned(2, "CreateProject") /\ call[2].ok
    /\ call[1].name = call[2].name
    /\ call[1].outID # call[2].outID
    /\ {r.id : r \in ActiveNamed(call[1].name)} = {call[1].outID, call[2].outID}
    /\ \E name \in NewEnvNames : Cardinality(EnvNamed(name)) = 2

RaceTriples == {<<p, e, k>> : p \in RaceProjects, e \in RaceEnvs, k \in RaceKeys}

\* C10: the variable upsert is atomic with respect to other invocations:
\* when two SetEnvVariable calls of the same triple interleave, the triple
\* never has two active rows.
C10_UpsertAtomic ==
    \A t \in RaceTriples : \A r1, r2 \in ActiveRows(t) : r1 = r2

\* C11: SoftDeleteProject is one atomic database step: the step that
\* soft-deletes a project row leaves none of the variables of that project
\* that were active before it still active, so that no other invocation and
\* no failure after it finds the project deleted and those variables active.
C11_SoftDeleteAtomic ==
    [][\A r \in projects :
          (~r.deleted /\ r \notin projects'
                      /\ [r EXCEPT !.deleted = TRUE] \in projects')
          => {v \in env_variables \cap env_variables' :
                  v.project_id = r.id /\ ~v.deleted} = {}]_vars

\* C12: a MigrateUp run that follows a run which returned nil, against the
\* same database and folder, executes no migration SQL, inserts no row into
\* schema_migrations, commits nothing and returns nil.
C12_SecondRunNoOp ==
    [][(run[1].pc = "loop" /\ run[1].prevOK)
         => /\ run'[1].executed = <<>>
            /\ schema_migrations' = schema_migrations
            /\ committed' = committed
            /\ run'[1].err = ""]_vars

\* C12 witness: a run that followed a successful run over two or more
\* migrations, one of them committed, has returned.
C12_Witness ==
    /\ run[1].pc = "returned" /\ run[1].prevOK
    /\ Len(run[1].migrations) >= 2
    /\ committed # <<>>

\* C13: over MigrateUp runs one after the other, aborted runs and their
\* retries included, the SQL of each migration file is committed at most
\* once and schema_migrations has at most one row per migration file name.
C13_AppliedAtMostOnce ==
    /\ \A i, j \in 1..Len(committed) : committed[i] = committed[j] => i = j
    /\ \A i, j \in 1..Len(schema_migrations) :
            schema_migrations[i] = schema_migrations[j] => i = j

\* C13 witness: the retry of an aborted run has returned nil, two
\* migrations are committed, and the folder has two files of one base name.
C13_Witness ==
    /\ run[1].pc = "returned" /\ run[1].err = ""
    /\ run[1].n >= 2 /\ ~run[1].prevOK
    /\ Len(committed) >= 2
    /\ \E f, g \in folder : f # g /\ Base(f) = Base(g)

\* C14: migrations are applied in ascending order of their file name, the
\* base name recorded in schema_migrations: whenever one migration is
\* committed before another, in one run or across runs, its base name sorts
\* before the other's, whatever the layout of the folder.
C14_AppliedInFileNameOrder ==
    \A i, j \in 1..Len(committed) :
        i < j => Less(Base(committed[i]), Base(committed[j]))

\* C15: when the SQL of a migration or the INSERT of its base name fails,
\* MigrateUp returns the error, the step commits nothing and inserts no row
\* into schema_migrations, every migration the run executed before it is
\* committed and recorded, and the run executes no migration after it.
C15_FailureStopsRun ==
    /\ [][(run[1].pc = "loop" /\ run'[1].err \in {"exec", "record"})
            => LET ran == run'[1].executed
               IN  /\ run'[1].pc = "returned"
                   /\ committed' = committed
                   /\ schema_migrations' = schema_migrations
                   /\ ran = Append(run[1].executed, run[1].migrations[run[1].i])
                   /\ ran[Len(ran)] \notin Range(committed')
                   /\ \A k \in 1..(Len(ran) - 1) :
                        /\ ran[k] \in Range(committed')
                        /\ Base(ran[k]) \in Range(schema_migrations')]_vars
    /\ [][(run[1].pc = "returned" /\ run[1].err # "")
            => run'[1].n = run[1].n + 1 /\ run'[1].executed = <<>>]_vars

\* C15 witness: a run has returned the error of the INSERT of its third
\* migration, the two before it committed by this run.
C15_Witness ==
    /\ run[1].pc = "returned" /\ run[1].err = "record"
    /\ Len(run[1].executed) = 3
    /\ Len(committed) = 2

\* What the parser claims speak of: the positions of the separator in the
\* input, and t being s without its leading and trailing white space.
Separators == {i \in 1..Len(input) : input[i] = "="}
IsTrimmed(t, s) ==
    /\ t # <<>> => (t[1] \notin WhiteSpace /\ t[Len(t)] \notin WhiteSpace)
    /\ \E lead \in 0..(Len(s) - Len(t)) :
          /\ SubSeq(s, lead + 1, lead + Len(t)) = t
          /\ \A i \in (1..lead) \cup ((lead + Len(t) + 1)..Len(s)) : s[i] \in WhiteSpace

\* C16: for an input with at least one '=', ParseKeyValuePair returns no
\* error, the key is the text before the first '=' and the value all the
\* text after it (further '=' included), both without leading and trailing
\* white space; an empty right-hand side gives the empty value.
C16_SplitsAtFirstSeparator ==
    (result # <<>> /\ Separators # {})
    => LET first == CHOOSE i \in Separators : \A j \in Separators : i <= j
       IN  /\ result[3] = <<>>
           /\ IsTrimmed(result[1], SubSeq(input, 1, first - 1))
           /\ IsTrimmed(result[2], SubSeq(input, first + 1, Len(input)))
           /\ (first = Len(input) => result[2] = <<>>)

\* C16 witness: an input with white space before its key and two '=' has
\* been parsed, and the value holds the second '='.
C16_Witness ==
    /\ result # <<>>
    /\ Cardinality(Separators) = 2
    /\ input[1] \in WhiteSpace
    /\ result[1] = <<"a">>
    /\ result[2] = <<"=">>

\* C17: ParseKeyValuePair returns an error exactly when the input has no
\* '='; then key and value are empty and the message is
\* "invalid format: <input> (expected key=value)" with the input as given.
C17_ErrorIffNoSeparator ==
    result # <<>>
    => /\ (result[3] # <<>>) <=> (Separators = {})
       /\ Separators = {}
            => result = << <<>>, <<>>,
                           <<"invalid format: ">> \o input \o <<" (expected key=value)">> >>

\* C17 witness: an input without '=' that starts and ends with white space
\* has been parsed.
C17_Witness ==
    /\ result # <<>> /\ result[3] # <<>>
    /\ Len(input) >= 3
    /\ input[1] \in WhiteSpace /\ input[Len(input)] \in WhiteSpace
    /\ "a" \in Range(input)

\* C18: DeleteEnvVariable of a triple without an active row (never set, or
\* already soft-deleted) returns an error and changes no row; a
\* DeleteEnvVariable that succeeds leaves the triple without an active row,
\* so that of two DeleteEnvVariable calls in a row at most one succeeds.
C18_DeleteOnlyActive ==
    [][\A self \in Procs :
          (pc[self] = "idle" /\ Returned(self, "DeleteEnvVariable")')
          => LET t == TripleOf(call'[self])
             IN  /\ ActiveRows(t) = {}
                    => (~call'[self].ok /\ env_variables' = env_variables)
                 /\ call'[self].ok
                    => {r \in env_variables' :
                          <<r.project_id, r.environment_id, r.key>> = t /\ ~r.deleted} = {}]_vars

\* C18 witness: DeleteEnvVariable has returned an error for a triple whose
\* row is soft-deleted.
C18_Witness ==
    /\ Returned(1, "DeleteEnvVariable") /\ ~call[1].ok
    /\ Rows(TripleOf(call[1])) # {}
    /\ ActiveRows(TripleOf(call[1])) = {}

\* C19: in every state GetEnvironmentsForProject(p) returns, once each,
\* exactly the environments with at least one active variable of project p:
\* an environment is in the result from the first variable set for it until
\* its last active variable is soft-deleted, by DeleteEnvVariable or by
\* SoftDeleteProject.
C19_EnvironmentsWithActiveVariables ==
    \A p \in ProjectIDs :
        GetEnvironmentsForProject(p) =
            [e \in {e \in environments :
                      \E k \in Keys : ActiveRows(<<p, e.id, k>>) # {}} |-> 1]

\* C19 witness: DeleteEnvVariable has soft-deleted the last active variable
\* of an environment, which is no longer in the result, while another
\* environment of the project is.
C19_Witness ==
    /\ Returned(1, "DeleteEnvVariable") /\ call[1].ok
    /\ \A e \in DOMAIN GetEnvironmentsForProject(call[1].pid) : e.id # call[1].eid
    /\ DOMAIN GetEnvironmentsForProject(call[1].pid) # {}

\* C20: after CreateProject(name) has succeeded, GetProjectByName(name)
\* returns the project with the id CreateProject returned; for a name
\* without an active project, a name whose projects are all soft-deleted
\* included, GetProjectByName returns an error.
C20_GetProjectByNameAfterCreate ==
    /\ \A self \in Procs :
          (Returned(self, "CreateProject") /\ call[self].ok)
          => {r.id : r \in GetProjectByName(call[self].name)} = {call[self].outID}
    /\ \A name \in Names :
          (\A r \in projects : r.name = name => r.deleted)
          => GetProjectByName(name) = {}

\* C20 witness: CreateProject has succeeded for a name that a soft-deleted
\* project has too, GetProjectByName returns the new one, and the other
\* name has no project.
C20_Witness ==
    /\ Returned(1, "CreateProject") /\ call[1].ok
    /\ \E r \in projects : r.name = call[1].name /\ r.deleted
    /\ \E r \in GetProjectByName(call[1].name) : r.id = call[1].outID
    /\ \E name \in Names : GetProjectByName(name) = {}

\* What the command line claims speak of: the invocation has ended, and the
\* handler calls it made that returned an error.
Exited == cli.pc = "exited"
FailedCalls == {i \in 1..Len(cli.calls) : ~cli.calls[i].ok}

\* C21: when list is invoked with a non-empty --run command and the lookup
\* of the variables succeeds, with any number of variables, the command
\* line is executed in a shell exactly once, with the stored variables after
\* the inherited environment, and the tool exits with the child's status
\* (a shell that cannot be started, with exit status 1, apart).
C21_RunExecutesCommand ==
    (/\ Exited /\ argv.verb = "list" /\ argv.run # ""
     /\ \E i \in 1..Len(cli.calls) :
           cli.calls[i].name \in {"ListEnvVariables", "SearchEnvVariables"} /\ cli.calls[i].ok)
    => \/ cli.shells = <<>> /\ cli.exit = <<1>>
       \/ /\ Len(cli.shells) = 1
          /\ cli.shells[1].command = argv.run
          /\ cli.shells[1].env =
                Environ \o [i \in 1..Len(cli.variables) |->
                              <<cli.variables[i].Key, "=", cli.variables[i].Value>>]
          /\ cli.exit = <<cli.shells[1].code>>

\* C22: delete-project and export over an existing file make their
\* destructive handler call (SoftDeleteProject, ExportEnvFile) only when
\* --force was set to true or the prompt was answered y or Y; otherwise
\* nothing is deleted or overwritten and the process exits with status 0.
C22_DestructiveOnlyConfirmed ==
    LET destructive ==
            \/ argv.verb = "delete-project"
            \/ argv.verb = "export" /\ argv.fileExists
        confirmed == argv.force \/ argv.response \in {"y", "Y"}
        made == {i \in 1..Len(cli.calls) :
                    cli.calls[i].name \in {"SoftDeleteProject", "ExportEnvFile"}}
    IN  (destructive /\ ~confirmed)
        => /\ made = {}
           /\ (Exited /\ argv.project # "") => cli.exit = <<0>>

\* C23: a command ends with a non-zero exit status whenever a handler call
\* it made returned an error, and with status 0 only when every handler
\* call it made succeeded.
C23_ExitStatusReflectsErrors ==
    Exited => (FailedCalls # {} => cli.exit # <<0>>)

\* C24: a SoftDeleteProject(id) that returns "no project found" (no active
\* project has that id) leaves every row of projects and env_variables as
\* it was, the active variable rows with that project_id included.
C24_FailedSoftDeleteChangesNothing ==
    [][\A self \in Procs :
          (pc[self] = "SoftDeleteProject_vars" /\ call[self].rows = 0
             /\ pc'[self] = "returned" /\ ~call'[self].ok)
          => (projects' = projects /\ env_variables' = env_variables)]_vars

\* C25: between sequential repository calls, no active env_variables row
\* references a soft-deleted project.
C25_NoActiveVariableOfDeletedProject ==
    (\A self \in Procs : pc[self] \in {"idle", "returned"})
    => \A v \in env_variables :
          ~v.deleted => \A r \in projects : r.id = v.project_id => ~r.deleted

\* C26: SetEnvVariable inserts a row only when no row exists for the
\* triple, also when its lookup fails with an error other than "no rows":
\* a row that exists for the triple is never duplicated.
C26_InsertOnlyWithoutRow ==
    [][\A self \in Procs : \A t \in RaceTriples :
          (pc[self] = "SetEnvVariable_write" /\ TripleOf(call[self]) = t
             /\ Rows(t) # {})
          => Cardinality({r \in env_variables' :
                            <<r.project_id, r.environment_id, r.key>> = t})
               = Cardinality(Rows(t))]_vars

\* C27: whenever MigrateUp returns nil, the SQL of every migration file the
\* manager listed has been committed exactly once, in this run or an
\* earlier one, also when two files in different directories have the same
\* base name.
C27_SuccessMeansAllCommitted ==
    (run[1].pc = "returned" /\ run[1].err = "")
    => \A path \in Range(run[1].migrations) :
          Cardinality({i \in 1..Len(committed) : committed[i] = path}) = 1

\* C28: when two MigrateUp runs interleave, each migration's SQL is still
\* committed at most once: the INSERT of a version that is committed fails
\* on the primary key, its transaction is rolled back, and a run that
\* returns an error commits nothing in the step that fails.
C28_ConcurrentRunsCommitOnce ==
    /\ [](\A i, j \in 1..Len(committed) : committed[i] = committed[j] => i = j)
    /\ [][\A self \in Procs :
            (run[self].pc # "returned" /\ run'[self].pc = "returned"
                /\ run'[self].err # "")
            => (committed' = committed /\ schema_migrations' = schema_migrations)]_vars
    /\ [][\A self \in Procs :
            (run[self].pc = "record" /\ run'[self] # run[self]
                /\ Base(run[self].migrations[run[self].i]) \in Range(schema_migrations))
            => (run'[self].pc = "returned" /\ run'[self].err = "record")]_vars

\* C28 witness: both runs loaded an empty schema_migrations in their first
\* run, the folder has no two files of one base name, one run committed a
\* migration and the other, which executed the same file, returned the
\* error of the INSERT.
C28_Witness ==
    /\ \A f, g \in folder : Base(f) = Base(g) => f = g
    /\ \A self \in Procs : run[self].n = 1 /\ run[self].applied = {}
    /\ run[1].pc = "returned" /\ run[1].err = "record"
    /\ run[1].executed # <<>>
    /\ run[1].executed[Len(run[1].executed)] \in Range(committed)
    /\ Len(run[2].executed) >= 1

\* C29: a successful SetEnvVariable(p, e, k, v) changes or creates exactly
\* one row, the one of (p, e, k): an updated or reactivated row keeps its
\* id, project_id, environment_id and key, and every row of another triple,
\* every project row and every environment row stays as it was.
C29_SetTouchesOneRow ==
    [][\A self \in Procs :
          (pc[self] = "SetEnvVariable_write" /\ pc'[self] = "returned" /\ call'[self].ok)
          => LET t == TripleOf(call[self])
                 gone == env_variables \ env_variables'
                 new == env_variables' \ env_variables
             IN  /\ projects' = projects
                 /\ environments' = environments
                 /\ Cardinality(gone) <= 1 /\ Cardinality(new) <= 1
                 /\ \A r \in gone \cup new :
                       <<r.project_id, r.environment_id, r.key>> = t
                 /\ \A r \in gone : \E n \in new : n.id = r.id
                 /\ call'[self].out \in env_variables'
                 /\ <<call'[self].out.project_id, call'[self].out.environment_id,
                      call'[self].out.key>> = t]_vars

\* C29 witness: SetEnvVariable has reactivated the soft-deleted row of its
\* triple with a new value while the project has a row of another triple
\* with a different value.
C29_Witness ==
    /\ Returned(1, "SetEnvVariable") /\ call[1].ok
    /\ call[1].existing.id # NoVarID /\ call[1].existing.deleted
    /\ call[1].existing.value # call[1].value
    /\ \E r \in env_variables :
          /\ r.project_id = call[1].pid
          /\ <<r.project_id, r.environment_id, r.key>> # TripleOf(call[1])
          /\ r.value # call[1].value

\* C30: a project created with the name of a soft-deleted project has a
\* different id and no variables, GetEnvVariables(newId, e) is empty for
\* every environment e; and setting a key on a project neither reactivates
\* nor alters a row of another project, the deleted one of its name included.
C30_RecreatedProjectStartsEmpty ==
    /\ [](\A self \in Procs :
            (Returned(self, "CreateProject") /\ call[self].ok)
            => /\ \A r \in projects :
                    (r.name = call[self].name /\ r.deleted) => r.id # call[self].outID
               /\ \A e \in environments : GetEnvVariables(call[self].outID, e.id) = {})
    /\ [][\A self \in Procs :
            (pc[self] = "SetEnvVariable_write" /\ pc'[self] = "returned")
            => \A r \in env_variables :
                  r.project_id # call[self].pid => r \in env_variables']_vars

\* C30 witness: SetEnvVariable has succeeded on a project whose name a
\* soft-deleted project has too, and the deleted project's row of the same
\* environment and key is still soft-deleted.
C30_Witness ==
    /\ Returned(1, "SetEnvVariable") /\ call[1].ok
    /\ \E new, old \in projects :
          /\ new.id = call[1].pid /\ ~new.deleted
          /\ old.name = new.name /\ old.deleted
          /\ \E r \in env_variables :
                /\ r.project_id = old.id /\ r.deleted
                /\ r.environment_id = call[1].eid /\ r.key = call[1].key

====
